---- MODULE Spec2Model ----
(***************************************************************************)
(* Blog post manager (src/blog-post-manager/src/main.ts): an in-memory     *)
(* list of posts mirrored to one localStorage key, a form that creates or  *)
(* updates a post, and a view that renders the filtered and sorted list.   *)
(* Every action below is one UI event handler, run to completion.          *)
(***************************************************************************)
EXTENDS Integers, Sequences, FiniteSets, TLC

\* ------------------------------------------------------------------ bounds
\* Number of distinct post ids the model knows (ids of an earlier session's
\* snapshot plus the UUIDs this session can issue).
MaxIds == 3
\* The clock runs from 0 to MaxTime.
MaxTime == 1
\* How many times localStorage.setItem can throw in one session.
MaxFailures == 1

Ids == 1..MaxIds
Times == 0..MaxTime

\* ----------------------------------------------------------------- strings
\* Author names and the filter text are sequences of characters, so that
\* toLowerCase, includes and localeCompare are computed, not assumed.
Ann == <<"A", "n", "n">>
bob == <<"b", "o", "b">>
Empty == <<>>

\* What the user can have typed into the form when it is submitted.
Inputs ==
  { [title |-> "T1", author |-> Ann, body |-> "B1"],
    [title |-> "T2", author |-> bob, body |-> "B2"] }

\* What the user can have typed into the author filter.
FilterTexts == { Empty, <<"A", "n">> }

\* The values of the sort selector.
SortKeys == { "date", "author" }

LowerOf(c) ==
  CASE c = "A" -> "a"
    [] c = "B" -> "b"
    [] OTHER -> c

toLowerCase(s) == [i \in 1..Len(s) |-> LowerOf(s[i])]

\* Bug: startsWith instead of includes.
startsWith(s, sub) == Len(sub) <= Len(s) /\ SubSeq(s, 1, Len(sub)) = sub

includes(s, sub) ==
  \E i \in 0..(Len(s) - Len(sub)) : SubSeq(s, i + 1, i + Len(sub)) = sub

\* Collation: letters are ordered alphabetically without regard to case;
\* between strings that differ in case only, lower case sorts first.
Alphabet == <<"a", "b", "d", "e", "f", "i", "n", "o", "u">>
Rank(c) == CHOOSE k \in 1..Len(Alphabet) : Alphabet[k] = LowerOf(c)
IsUpper(c) == LowerOf(c) # c

RECURSIVE PrimaryCompare(_, _)
PrimaryCompare(a, b) ==
  IF a = <<>> /\ b = <<>> THEN 0
  ELSE IF a = <<>> THEN -1
  ELSE IF b = <<>> THEN 1
  ELSE IF Rank(Head(a)) < Rank(Head(b)) THEN -1
  ELSE IF Rank(Head(a)) > Rank(Head(b)) THEN 1
  ELSE PrimaryCompare(Tail(a), Tail(b))

RECURSIVE CaseCompare(_, _)
CaseCompare(a, b) ==
  IF a = <<>> \/ b = <<>> THEN 0
  ELSE IF IsUpper(Head(a)) = IsUpper(Head(b)) THEN CaseCompare(Tail(a), Tail(b))
  ELSE IF IsUpper(Head(b)) THEN -1
  ELSE 1

localeCompare(a, b) ==
  IF PrimaryCompare(a, b) # 0 THEN PrimaryCompare(a, b) ELSE CaseCompare(a, b)

\* ------------------------------------------------------------------- state
VARIABLES
  posts,             \* let posts: BlogPost[]
  currentEditingId,  \* let currentEditingId: string | null (NoId = null)
  storage,           \* localStorage item 'blogPosts'
  authorFilter,      \* value of the #author-filter input
  sortBy,            \* value of the #sort-by select
  cancelEdit,        \* the #cancel-edit button is in the document
  container,         \* cards rendered in #posts-container
  noPosts,           \* style.display of #no-posts
  ready,             \* DOMContentLoaded has run init
  issued,            \* ids that exist (earlier sessions' and this one's)
  now,               \* the clock read by new Date()
  error,             \* exception that ended the last handler, or "none"
  failures           \* how many times localStorage.setItem has thrown

vars == << posts, currentEditingId, storage, authorFilter, sortBy, cancelEdit,
           container, noPosts, ready, issued, now, error, failures >>

NoId == 0

\* ---------------------------------------------------------- serialization
\* A post is a record; a property that an object does not have (its value
\* is undefined) is a field that the record does not have.
Has(post, field) == field \in DOMAIN post

\* new Date(undefined) is an invalid date: its time value is NaN.
InvalidDate == -1

\* JSON.stringify writes a Date as its ISO string, an invalid one as null;
\* new Date(string) reads the string, new Date(null) is the epoch.
toJSON(t) == IF t = InvalidDate THEN << "null", 0 >> ELSE << "iso", t >>
newDate(s) == IF s[1] = "iso" THEN s[2] ELSE 0

\* JSON.stringify(posts): each post with the properties it has.
Stringify(list) ==
  [ kind |-> "array",
    items |-> [i \in 1..Len(list) |->
                 [ f \in DOMAIN list[i] |->
                     IF f = "timestamp" THEN toJSON(list[i][f])
                     ELSE list[i][f] ]] ]

\* The item does not exist: getItem returns null.
Missing == [ kind |-> "null", items |-> <<>> ]
\* Stored text that JSON.parse rejects.
Unparseable == [ kind |-> "garbage", items |-> <<>> ]
\* Stored JSON that is not an array: it has no map method.
NotAnArray == [ kind |-> "object", items |-> <<>> ]

\* Stored text of zero length.
EmptyString == [ kind |-> "empty", items |-> <<>> ]
\* A stored array with a null element.
ArrayOfNull == [ kind |-> "array", items |-> << [ json |-> "null" ] >> ]
\* A stored array with an object that is no post: [{}].
ArrayOfObject == [ kind |-> "array", items |-> << << >> >> ]

\* Snapshots an earlier session of the program can have left behind.
SavedBefore ==
  LET p1 == [ id |-> 1, title |-> "T1", author |-> Ann, body |-> "B1",
              timestamp |-> 0 ]
      p2 == [ id |-> 2, title |-> "T2", author |-> bob, body |-> "B2",
              timestamp |-> 0 ]
  IN { Stringify(<<>>), Stringify(<< p1 >>), Stringify(<< p2, p1 >>) }

StoredSnapshots == { Missing } \cup SavedBefore
CorruptItems == { Unparseable, NotAnArray, EmptyString, ArrayOfNull, ArrayOfObject }

IdsIn(item) ==
  { item.items[i].id : i \in { j \in 1..Len(item.items) : Has(item.items[j], "id") } }

\* ------------------------------------------------------------- operations
\* p.id === id
IsPost(post, id) == Has(post, "id") /\ post.id = id

HasPost(list, id) == \E i \in 1..Len(list) : IsPost(list[i], id)

\* posts.find(p => p.id === id): the first match.
find(list, id) == CHOOSE i \in 1..Len(list) :
                    /\ IsPost(list[i], id)
                    /\ \A j \in 1..(i - 1) : ~IsPost(list[j], id)

\* Bug: the list is mutated but the snapshot is not rewritten.
saveNothing(list, stored, ok) == stored

\* Bug: the snapshot is written before the list is mutated.
saveBeforeMutation(list, stored, ok) == IF ok THEN Stringify(posts) ELSE stored

\* localStorage.setItem: the item after the call, which throws when ~ok.
saveToStorage(list, stored, ok) == IF ok THEN Stringify(list) ELSE stored

\* Bug: every loaded post is stamped with the time of loading.
loadStampsNow(stored, list) ==
  IF stored.kind \in { "null", "empty" } THEN list
  ELSE IF stored.kind # "array" THEN <<>>
  ELSE IF \E i \in 1..Len(stored.items) : Has(stored.items[i], "json")
       THEN <<>>
  ELSE [i \in 1..Len(stored.items) |->
          [ f \in DOMAIN stored.items[i] \cup { "timestamp" } |->
              IF f = "timestamp" THEN now ELSE stored.items[i][f] ]]

\* The list loadFromStorage leaves in posts, given the stored item and the
\* list before the call. A falsy item is skipped; text that does not parse,
\* a value without map and a null element (post.timestamp of null) throw
\* inside the try, and the catch empties the list; any other element is
\* copied with its timestamp property replaced by a Date.
loadFromStorage(stored, list) ==
  IF stored.kind \in { "null", "empty" } THEN list
  ELSE IF stored.kind # "array" THEN <<>>
  ELSE IF \E i \in 1..Len(stored.items) : Has(stored.items[i], "json")
       THEN <<>>
  ELSE [i \in 1..Len(stored.items) |->
          [ f \in DOMAIN stored.items[i] \cup { "timestamp" } |->
              IF f # "timestamp" THEN stored.items[i][f]
              ELSE IF Has(stored.items[i], "timestamp")
                   THEN newDate(stored.items[i].timestamp)
                   ELSE InvalidDate ]]

\* Bug: push instead of unshift.
createPostAtEnd(list, id, input, t) ==
  list \o << [ id |-> id, title |-> input.title, author |-> input.author,
               body |-> input.body, timestamp |-> t ] >>

createPost(list, id, input, t) ==
  << [ id |-> id, title |-> input.title, author |-> input.author,
       body |-> input.body, timestamp |-> t ] >> \o list

\* Bug: an unknown id appends a post instead of being skipped.
updateOrInsert(list, id, input) ==
  IF HasPost(list, id)
  THEN [ list EXCEPT ![find(list, id)] =
           [ @ EXCEPT !.title = input.title, !.author = input.author,
                      !.body = input.body ] ]
  ELSE list \o << [ id |-> id, title |-> input.title, author |-> input.author,
                    body |-> input.body, timestamp |-> 0 ] >>

\* Bug: the updated post is moved to the front of the list.
updateAndMoveToFront(list, id, input) ==
  IF HasPost(list, id)
  THEN << [ list[find(list, id)] EXCEPT !.title = input.title,
                                        !.author = input.author,
                                        !.body = input.body ] >>
       \o SelectSeq(list, LAMBDA post : post.id # id)
  ELSE list

updatePost(list, id, input) ==
  IF HasPost(list, id)
  THEN [ list EXCEPT ![find(list, id)] =
           [ @ EXCEPT !.title = input.title, !.author = input.author,
                      !.body = input.body ] ]
  ELSE list

\* Bug: the filter compares authors, so it drops every post of the author.
withoutAuthorOf(list, id) ==
  SelectSeq(list, LAMBDA post :
    \A i \in 1..Len(list) : list[i].id = id => post.author # list[i].author)

withoutPost(list, id) == SelectSeq(list, LAMBDA post : ~IsPost(post, id))

\* Bug: an id generator that can repeat itself.
repeatingId(used) == CHOOSE id \in Ids : \A other \in Ids : id <= other

\* crypto.randomUUID(): an id that no post has ever carried.
randomUUID(used) == CHOOSE id \in Ids \ used : \A other \in Ids \ used : id <= other

\* String(post.author): what localeCompare makes of its argument.
Undefined == << "u", "n", "d", "e", "f", "i", "n", "e", "d" >>
authorText(post) == IF Has(post, "author") THEN post.author ELSE Undefined

\* Bug: the date order is ascending.
compareOldestFirst(key, a, b) ==
  IF key = "author" THEN localeCompare(authorText(a), authorText(b))
  ELSE IF InvalidDate \in { a.timestamp, b.timestamp } THEN 0
  ELSE a.timestamp - b.timestamp

\* The comparator of the listing. A difference of time values that is NaN
\* counts as 0 in Array.prototype.sort. A first post without author makes the
\* call throw: ListingThrows tells when, and the value here is then unused.
compare(key, a, b) ==
  IF key = "author" THEN localeCompare(authorText(a), authorText(b))
  ELSE IF InvalidDate \in { a.timestamp, b.timestamp } THEN 0
  ELSE b.timestamp - a.timestamp

\* Bug: a sort that is not stable: x goes in front of its equals.
InsertBeforeEquals(sorted, x, key) ==
  LET after == { i \in 1..Len(sorted) : compare(key, sorted[i], x) >= 0 }
      at == IF after = {} THEN Len(sorted) + 1
            ELSE CHOOSE i \in after : \A j \in after : i <= j
  IN SubSeq(sorted, 1, at - 1) \o << x >> \o SubSeq(sorted, at, Len(sorted))

\* Array.prototype.sort is stable: x goes behind every element that does not
\* compare greater than it.
InsertSorted(sorted, x, key) ==
  LET after == { i \in 1..Len(sorted) : compare(key, sorted[i], x) > 0 }
      at == IF after = {} THEN Len(sorted) + 1
            ELSE CHOOSE i \in after : \A j \in after : i <= j
  IN SubSeq(sorted, 1, at - 1) \o << x >> \o SubSeq(sorted, at, Len(sorted))

RECURSIVE sort(_, _)
sort(list, key) ==
  IF list = <<>> THEN <<>>
  ELSE InsertSorted(sort(SubSeq(list, 1, Len(list) - 1), key), list[Len(list)], key)

\* Whether getFilteredAndSortedPosts ends with a TypeError: the set of the
\* possible answers. The filter reads post.author.toLowerCase() of every
\* post. The author comparator reads a.author.localeCompare of its first
\* argument, and which post of a pair the sort passes first is up to the
\* engine: with two or more posts and one without author it can throw, and
\* it must when no post has an author.
ListingThrows(list, filter, key) ==
  LET lacking == { i \in 1..Len(list) : ~Has(list[i], "author") }
  IN IF lacking = {} THEN { FALSE }
     ELSE IF toLowerCase(filter) # <<>> THEN { TRUE }
     ELSE IF key # "author" \/ Len(list) < 2 THEN { FALSE }
     ELSE IF Cardinality(lacking) = Len(list) THEN { TRUE }
     ELSE BOOLEAN

getFilteredAndSortedPosts(list, filter, key) ==
  LET filterText == toLowerCase(filter)
      filtered == IF filterText # <<>>
                  THEN SelectSeq(list, LAMBDA post :
                                   includes(toLowerCase(post.author), filterText))
                  ELSE list
  IN sort(filtered, key)

escapeHtml(text) == << "text", text >>

\* toLocaleString of an invalid date is the text "Invalid Date".
formatDate(date) ==
  IF date = InvalidDate THEN << "Invalid Date", 0 >> ELSE << "sv-SE", date >>

\* The text of a property in the card: textContent = undefined gives the
\* empty text.
textOf(post, field) == IF Has(post, field) THEN post[field] ELSE Empty

\* The card of a post; `${post.id}` of a post without id reads "undefined".
createPostHTML(post) ==
  [ id |-> IF Has(post, "id") THEN post.id ELSE Undefined,
    title |-> escapeHtml(textOf(post, "title")),
    author |-> escapeHtml(textOf(post, "author")),
    date |-> formatDate(post.timestamp),
    body |-> escapeHtml(textOf(post, "body")) ]

\* Bug: the empty-state element is shown but never hidden again.
renderNeverHides(list, filter, key) ==
  LET filteredPosts == getFilteredAndSortedPosts(list, filter, key)
  IN /\ error' = "none"
     /\ IF Len(filteredPosts) = 0
        THEN container' = <<>> /\ noPosts' = "block"
        ELSE /\ UNCHANGED noPosts
             /\ container' = [i \in 1..Len(filteredPosts) |->
                                createPostHTML(filteredPosts[i])]

\* renderPosts, and how it ends: a TypeError of the listing leaves the page
\* as it was.
renderPosts(list, filter, key) ==
  \E thrown \in ListingThrows(list, filter, key) :
    IF thrown
    THEN error' = "TypeError" /\ UNCHANGED << container, noPosts >>
    ELSE LET filteredPosts == getFilteredAndSortedPosts(list, filter, key)
         IN /\ error' = "none"
            /\ IF Len(filteredPosts) = 0
               THEN container' = <<>> /\ noPosts' = "block"
               ELSE /\ noPosts' = "none"
                    /\ container' = [i \in 1..Len(filteredPosts) |->
                                       createPostHTML(filteredPosts[i])]

\* Bug: the form is cleared but the editing id is kept.
resetFormKeepsId ==
  /\ cancelEdit' = FALSE
  /\ UNCHANGED currentEditingId

resetForm ==
  /\ cancelEdit' = FALSE
  /\ currentEditingId' = NoId

fillForm == cancelEdit' = TRUE

\* ------------------------------------------------------------------ events
\* DOMContentLoaded: load, register the listeners, render.
init ==
  /\ ~ready
  /\ ready' = TRUE
  /\ posts' = loadFromStorage(storage, posts)
  /\ renderPosts(posts', authorFilter, sortBy)
  /\ UNCHANGED << currentEditingId, storage, authorFilter, sortBy, cancelEdit,
                  issued, now, failures >>

\* The form is submitted with `input` in its fields. `ok` tells whether
\* localStorage.setItem succeeds; when it throws, the handler ends there.
handleSubmit(input, ok) ==
  /\ ready
  /\ LET editing == currentEditingId # NoId
         saves == ~editing \/ HasPost(posts, currentEditingId)
         id == randomUUID(issued)
         list == IF editing THEN updatePost(posts, currentEditingId, input)
                 ELSE createPost(posts, id, input, now)
     IN /\ editing \/ issued # Ids
        /\ ok \/ failures < MaxFailures
        /\ failures' = IF saves /\ ~ok THEN failures + 1 ELSE failures
        /\ posts' = list
        /\ issued' = IF editing THEN issued ELSE issued \cup { id }
        /\ storage' = IF saves THEN saveToStorage(list, storage, ok) ELSE storage
        /\ IF saves /\ ~ok
           THEN /\ error' = "QuotaExceededError"
                /\ UNCHANGED << currentEditingId, cancelEdit, container, noPosts >>
           ELSE /\ resetForm
                /\ renderPosts(list, authorFilter, sortBy)
  /\ UNCHANGED << authorFilter, sortBy, ready, now >>

\* deletePost once the confirm dialog was accepted.
deleteConfirmed(id, ok) ==
  LET list == withoutPost(posts, id)
  IN /\ posts' = list
     /\ storage' = saveToStorage(list, storage, ok)
     /\ failures' = IF ok THEN failures ELSE failures + 1
     /\ IF ok
        THEN renderPosts(list, authorFilter, sortBy)
        ELSE /\ error' = "QuotaExceededError"
             /\ UNCHANGED << container, noPosts >>

\* Bug: the answer of the confirm dialog is ignored.
deleteUnconfirmed(id, confirmed, ok) ==
  /\ ready
  /\ ok \/ failures < MaxFailures
  /\ deleteConfirmed(id, ok)
  /\ UNCHANGED << currentEditingId, authorFilter, sortBy, cancelEdit, ready,
                  issued, now >>

\* A card's delete button (or window.deletePost) with the user's answer to
\* the confirm dialog.
deletePost(id, confirmed, ok) ==
  /\ ready
  /\ ok \/ failures < MaxFailures
  /\ IF confirmed
     THEN deleteConfirmed(id, ok)
     ELSE /\ error' = "none"
          /\ UNCHANGED << posts, storage, container, noPosts, failures >>
  /\ UNCHANGED << currentEditingId, authorFilter, sortBy, cancelEdit, ready,
                  issued, now >>

\* Bug: the early return for an unknown id is missing.
editPostUnchecked(id) ==
  /\ ready
  /\ currentEditingId' = id
  /\ fillForm
  /\ error' = "none"
  /\ UNCHANGED << posts, storage, authorFilter, sortBy, container, noPosts,
                  ready, issued, now, failures >>

\* A card's edit button (or window.editPost).
editPost(id) ==
  /\ ready
  /\ IF HasPost(posts, id)
     THEN currentEditingId' = id /\ fillForm
     ELSE UNCHANGED << currentEditingId, cancelEdit >>
  /\ error' = "none"
  /\ UNCHANGED << posts, storage, authorFilter, sortBy, container, noPosts,
                  ready, issued, now, failures >>

\* The cancel button that fillForm added: its onclick is resetForm.
cancelClick ==
  /\ ready
  /\ cancelEdit
  /\ resetForm
  /\ error' = "none"
  /\ UNCHANGED << posts, storage, authorFilter, sortBy, container, noPosts,
                  ready, issued, now, failures >>

\* Bug: the listing sorts the list itself, not a copy of it.
sortChangeInPlace(key) ==
  /\ ready
  /\ sortBy' = key
  /\ posts' = sort(posts, key)
  /\ renderPosts(posts, authorFilter, key)
  /\ UNCHANGED << currentEditingId, storage, authorFilter, cancelEdit,
                  ready, issued, now, failures >>

\* The user picks a sort key: the select's change listener is renderPosts.
sortChange(key) ==
  /\ ready
  /\ sortBy' = key
  /\ renderPosts(posts, authorFilter, key)
  /\ UNCHANGED << posts, currentEditingId, storage, authorFilter, cancelEdit,
                  ready, issued, now, failures >>

\* The user types in the filter: the input listener is renderPosts.
filterInput(text) ==
  /\ ready
  /\ authorFilter' = text
  /\ renderPosts(posts, text, sortBy)
  /\ UNCHANGED << posts, currentEditingId, storage, sortBy, cancelEdit, ready,
                  issued, now, failures >>

clearFilter ==
  /\ ready
  /\ authorFilter' = Empty
  /\ renderPosts(posts, Empty, sortBy)
  /\ UNCHANGED << posts, currentEditingId, storage, sortBy, cancelEdit, ready,
                  issued, now, failures >>

\* Time passes between two events.
Tick ==
  /\ now < MaxTime
  /\ now' = now + 1
  /\ UNCHANGED << posts, currentEditingId, storage, authorFilter, sortBy,
                  cancelEdit, container, noPosts, ready, issued, error, failures >>

\* ---------------------------------------------------------- specifications
InitWith(items) ==
  /\ posts = <<>>
  /\ currentEditingId = NoId
  /\ storage \in items
  /\ authorFilter \in FilterTexts
  /\ sortBy \in SortKeys
  /\ cancelEdit = FALSE
  /\ container = <<>>
  /\ noPosts = ""
  /\ ready = FALSE
  /\ issued = IdsIn(storage)
  /\ now = 0
  /\ error = "none"
  /\ failures = 0

\* The program in a browser whose storage works and holds what the program
\* itself saved earlier, or nothing.
Init == InitWith(StoredSnapshots)

Next ==
  \/ init
  \/ \E input \in Inputs : handleSubmit(input, TRUE)
  \/ \E id \in Ids, confirmed \in BOOLEAN : deletePost(id, confirmed, TRUE)
  \/ \E id \in Ids : editPost(id)
  \/ cancelClick
  \/ \E key \in SortKeys : sortChange(key)
  \/ \E text \in FilterTexts : filterInput(text)
  \/ clearFilter
  \/ Tick

Spec == Init /\ [][Next]_vars

\* The program in a browser whose storage can hold anything at startup.
InitCorrupt == InitWith(StoredSnapshots \cup CorruptItems)

SpecCorrupt == InitCorrupt /\ [][Next]_vars

NextFaulty ==
  \/ init
  \/ \E input \in Inputs, ok \in BOOLEAN : handleSubmit(input, ok)
  \/ \E id \in Ids, confirmed \in BOOLEAN, ok \in BOOLEAN : deletePost(id, confirmed, ok)
  \/ \E id \in Ids : editPost(id)
  \/ cancelClick
  \/ \E key \in SortKeys : sortChange(key)
  \/ \E text \in FilterTexts : filterInput(text)
  \/ clearFilter
  \/ Tick

\* The program in a browser where a write to storage can fail.
SpecFaulty == Init /\ [][NextFaulty]_vars

TypeOK ==
  /\ currentEditingId \in Ids \cup { NoId }
  /\ Len(posts) <= MaxIds + 1
  /\ now \in Times

\* --------------------------------------------------------------- claims
IdsOf(list) == { list[i].id : i \in 1..Len(list) }
Editing == currentEditingId # NoId
Create(input) == handleSubmit(input, TRUE) /\ ~Editing
Update(input) == handleSubmit(input, TRUE) /\ Editing

\* The stored item holds the posts of `list`, in the same order; no item
\* counts as the empty list.
Holds(item, list) ==
  \/ item = Missing /\ list = <<>>
  \/ /\ item.kind = "array"
     /\ Len(item.items) = Len(list)
     /\ \A i \in 1..Len(list) :
          /\ DOMAIN item.items[i] = { "id", "title", "author", "body", "timestamp" }
          /\ item.items[i].id = list[i].id
          /\ item.items[i].title = list[i].title
          /\ item.items[i].author = list[i].author
          /\ item.items[i].body = list[i].body
          /\ item.items[i].timestamp = << "iso", list[i].timestamp >>

\* C1: between two UI events, after a startup that loaded valid or missing
\* data, the stored snapshot holds exactly the posts of the in-memory list,
\* in the same order (so it does after every create, update and delete).
C1_SnapshotMirrorsList == ready => Holds(storage, posts)

\* Every id has been issued, posts were deleted again and one is left: the
\* snapshot has been rewritten by creates and by deletes.
C1_Witness ==
  /\ ready
  /\ issued = Ids
  /\ Len(posts) = 1
  /\ storage.kind = "array"
  /\ Len(storage.items) = 1

\* C2: a create makes the list one longer, puts the new post (a new id, the
\* submitted fields, the current time) at index 0 and keeps the previous
\* list behind it; a list that still has every post ever created is ordered
\* newest-created first (ids are issued in increasing order).
C2_CreateInsertsAtFront ==
  /\ [][ \A input \in Inputs : Create(input) =>
           /\ Len(posts') = Len(posts) + 1
           /\ posts'[1].id \notin issued
           /\ posts'[1].title = input.title
           /\ posts'[1].author = input.author
           /\ posts'[1].body = input.body
           /\ posts'[1].timestamp = now
           /\ Tail(posts') = posts ]_vars
  /\ [](ready /\ IdsOf(posts) = issued =>
          /\ Len(posts) = Cardinality(issued)
          /\ \A i, j \in 1..Len(posts) : i < j => posts[i].id > posts[j].id)

\* Three creates from an empty list.
C2_Witness ==
  /\ storage # Missing
  /\ Len(posts) = MaxIds
  /\ \A i \in 1..Len(posts) : posts[i].id = MaxIds + 1 - i
  /\ posts[1].author # posts[2].author

\* C3: a confirmed delete of an id in the list removes the one post with
\* that id and leaves the others as they were, in the same order.
C3_DeleteRemovesOne ==
  [][ \A id \in Ids : deletePost(id, TRUE, TRUE) /\ HasPost(posts, id) =>
        \E k \in 1..Len(posts) :
          /\ posts[k].id = id
          /\ posts' = SubSeq(posts, 1, k - 1) \o SubSeq(posts, k + 1, Len(posts)) ]_vars

\* A list whose middle post was deleted: two posts left, ids 3 and 1.
C3_Witness ==
  /\ ready
  /\ Len(posts) = 2
  /\ posts[1].id = 3
  /\ posts[2].id = 1
  /\ 2 \in issued
  /\ posts[1].author = posts[2].author

\* C4: an update or a delete of an id that no post carries leaves the
\* in-memory list as it is and raises no error.
C4_UnknownIdIsNoOp ==
  [][ /\ \A input \in Inputs :
           Update(input) /\ ~HasPost(posts, currentEditingId) =>
             posts' = posts /\ error' = "none"
      /\ \A id \in Ids :
           deletePost(id, TRUE, TRUE) /\ ~HasPost(posts, id) =>
             posts' = posts /\ error' = "none" ]_vars

\* The form edits an id that is no longer in the (non-empty) list: a submit
\* is an update of an unknown id.
C4_Witness ==
  /\ ready
  /\ Editing
  /\ ~HasPost(posts, currentEditingId)
  /\ posts # <<>>

\* C5: an update of an existing post overwrites its title, author and body
\* and nothing else: its id, timestamp and position, the length of the list
\* and every other post are unchanged.
C5_UpdateFrame ==
  [][ \A input \in Inputs :
        Update(input) /\ HasPost(posts, currentEditingId) =>
          /\ Len(posts') = Len(posts)
          /\ \A i \in 1..Len(posts) :
               IF posts[i].id = currentEditingId
               THEN posts'[i] = [ id |-> posts[i].id,
                                  title |-> input.title,
                                  author |-> input.author,
                                  body |-> input.body,
                                  timestamp |-> posts[i].timestamp ]
               ELSE posts'[i] = posts[i] ]_vars

\* The form edits the middle post of a three-post list whose posts differ
\* in author and time: the state an update of an existing post starts from.
C5_Witness ==
  /\ ready
  /\ Len(posts) = 3
  /\ currentEditingId = posts[2].id
  /\ posts[1].author # posts[2].author
  /\ posts[1].timestamp # posts[3].timestamp

IdSeq(list) == [i \in 1..Len(list) |-> list[i].id]

\* The ids of `after` are ids of `before` in their order there, behind at
\* most one id that `before` does not have.
KeepsIds(before, after) ==
  LET new == IdSeq(after)
      kept == IF new # <<>> /\ new[1] \notin IdsOf(before) THEN Tail(new) ELSE new
  IN kept = SelectSeq(IdSeq(before), LAMBDA id : \E i \in 1..Len(kept) : kept[i] = id)

\* C6: the ids in the list are pairwise distinct in every state, and every
\* step keeps the id of each post that stays in the list: startup takes the
\* ids as stored, and afterwards the ids of the list are the previous ones in
\* their order, less the deleted one, behind the id of a newly created post.
C6_IdsUniqueAndFixed ==
  /\ [](\A i, j \in 1..Len(posts) : posts[i].id = posts[j].id => i = j)
  /\ [][ /\ init => IdSeq(posts') = IdSeq(storage.items)
         /\ ready => KeepsIds(posts, posts')
         /\ \A i \in 1..Len(posts'), j \in 1..Len(posts) :
              posts'[i].id = posts[j].id =>
                posts'[i].timestamp = posts[j].timestamp ]_vars

\* A full list: the post with the first id, carrying the second input's
\* title, is last, below posts created later than it.
C6_Witness ==
  /\ ready
  /\ Len(posts) = MaxIds
  /\ storage # Missing
  /\ posts[MaxIds].id = 1
  /\ posts[MaxIds].title = "T2"
  /\ posts[1].timestamp > posts[MaxIds].timestamp

\* C7 as stated: a submit with no editing id adds one post and leaves the
\* form idle; a submit with editing id `id` adds none, leaves post `id` with
\* the submitted fields and returns the form to idle.
C7_SubmitStateMachine ==
  [][ \A input \in Inputs : handleSubmit(input, TRUE) =>
        /\ currentEditingId' = NoId
        /\ IF ~Editing
           THEN Len(posts') = Len(posts) + 1
           ELSE /\ Len(posts') = Len(posts)
                /\ \E i \in 1..Len(posts') :
                     /\ posts'[i].id = currentEditingId
                     /\ posts'[i].title = input.title
                     /\ posts'[i].author = input.author
                     /\ posts'[i].body = input.body ]_vars

\* C8: the editing id becomes non-empty only by an edit action that names
\* an id in the list (and then it is that id); an edit action with an id
\* not in the list leaves it as it is; startup leaves it empty.
C8_OnlyEditEntersEditing ==
  [][ /\ (currentEditingId' # NoId /\ currentEditingId' # currentEditingId) =>
           \E id \in Ids : /\ editPost(id)
                           /\ HasPost(posts, id)
                           /\ currentEditingId' = id
      /\ \A id \in Ids : editPost(id) /\ ~HasPost(posts, id) =>
           UNCHANGED << currentEditingId, cancelEdit >>
      /\ init => currentEditingId' = NoId ]_vars

\* The form edits the last post of a two-post list.
C8_Witness ==
  /\ ready
  /\ Len(posts) = 2
  /\ currentEditingId = posts[2].id
  /\ cancelEdit

\* C9: a click on cancel empties the editing id and leaves the in-memory
\* list and the stored snapshot as they are.
C9_CancelFrame ==
  [][ cancelClick =>
        /\ currentEditingId' = NoId
        /\ posts' = posts
        /\ storage' = storage ]_vars

\* The cancel button is there while the form edits the first of three
\* posts, all of them in the snapshot.
C9_Witness ==
  /\ ready
  /\ cancelEdit
  /\ Len(posts) = 3
  /\ currentEditingId = posts[1].id
  /\ Len(storage.items) = 3

\* C10: a delete whose confirmation is declined changes neither the list,
\* nor the snapshot, nor the editing state, nor the rendered view.
C10_DeclinedDeleteFrame ==
  [][ \A id \in Ids : deletePost(id, FALSE, TRUE) =>
        UNCHANGED << posts, storage, currentEditingId, cancelEdit, container,
                     noPosts >> ]_vars

\* A filtered view (one card of two posts) with the form editing a post:
\* a state in which a delete can be asked for and declined.
C10_Witness ==
  /\ ready
  /\ Len(posts) = 2
  /\ Len(container) = 1
  /\ Editing
  /\ HasPost(posts, currentEditingId)
  /\ noPosts = "none"

\* C11: saving the list and loading the saved item into an empty list, as
\* a restart does, gives the list back: same length and order, and each post
\* with the same id, title, author, body and timestamp.
C11_RoundTrip ==
  ready =>
    LET loaded == loadFromStorage(saveToStorage(posts, storage, TRUE), <<>>)
    IN /\ Len(loaded) = Len(posts)
       /\ \A i \in 1..Len(posts) :
            /\ loaded[i].id = posts[i].id
            /\ loaded[i].title = posts[i].title
            /\ loaded[i].author = posts[i].author
            /\ loaded[i].body = posts[i].body
            /\ loaded[i].timestamp = posts[i].timestamp

\* A list left by creates at different times and a delete: the newer post
\* carries the first input under the last id, the older one the second
\* input, and one issued id is gone.
C11_Witness ==
  /\ ready
  /\ issued = Ids
  /\ Len(posts) = 2
  /\ posts[1].id = MaxIds
  /\ posts[1].timestamp = 1
  /\ posts[2].timestamp = 0
  /\ posts[1].author = Ann
  /\ posts[2].author = bob
  /\ now = 1

\* A stored item that is an array of posts: every element has the five
\* properties of a post.
WellFormed(item) ==
  /\ item.kind = "array"
  /\ \A i \in 1..Len(item.items) :
       DOMAIN item.items[i] = { "id", "title", "author", "body", "timestamp" }

\* C12: a startup that finds a stored item other than a well-formed array
\* of posts (none, text that does not parse, a value of another shape)
\* leaves the list empty, and neither the startup nor any later operation
\* ends with an exception.
C12_MalformedIsDiscarded ==
  [][ /\ init /\ ~WellFormed(storage) => posts' = <<>>
      /\ error' = "none" ]_vars

Reverse(list) == [i \in 1..Len(list) |-> list[Len(list) + 1 - i]]

\* Filter texts and sort keys the listing is tried with, beyond the ones the
\* user of the model types and selects.
ProbeFilters ==
  FilterTexts \cup { <<"a", "n">>, <<"n", "n">>, <<"B">>, <<"o", "B">>,
                     <<"n", "a">>, <<"b", "o", "b", "b">> }
ProbeKeys == SortKeys \cup { "title", "" }

\* Alphabetical order of author names, whatever the case of the letters.
Alphabetical(a, b) == PrimaryCompare(a, b) <= 0

\* The list with the case of each author's first letter swapped ("ann",
\* "Bob"): names whose alphabetical order is not their code unit order.
SwapCase(c) ==
  CASE c = "A" -> "a"
    [] c = "a" -> "A"
    [] c = "B" -> "b"
    [] c = "b" -> "B"
    [] OTHER -> c
Recased(list) ==
  [i \in 1..Len(list) |->
     [ list[i] EXCEPT !.author = << SwapCase(Head(@)) >> \o Tail(@) ]]

\* C13: for every list (the in-memory list, its reversal and its recased
\* copy), every filter and every sort key, the listing is in ascending
\* alphabetical order of author when the key is "author" and in descending
\* order of timestamp for any other key.
C13_ListingIsSorted ==
  ready =>
    \A list \in { posts, Reverse(posts), Recased(posts) },
       filter \in ProbeFilters, key \in ProbeKeys :
      LET listing == getFilteredAndSortedPosts(list, filter, key)
      IN \A i \in 1..(Len(listing) - 1) :
           IF key = "author"
           THEN Alphabetical(listing[i].author, listing[i + 1].author)
           ELSE listing[i].timestamp >= listing[i + 1].timestamp

\* A list whose order is neither the author order (bob before Ann) nor,
\* once reversed, the date order (older before newer).
C13_Witness ==
  /\ ready
  /\ Len(posts) = 3
  /\ posts[1].author = bob
  /\ posts[2].author = Ann
  /\ posts[3].author = bob
  /\ posts[1].timestamp = 1
  /\ posts[3].timestamp = 0

\* The author contains the text, letter case ignored.
ContainsIgnoringCase(author, text) ==
  \E k \in 0..(Len(author) - Len(text)) :
    \A i \in 1..Len(text) : LowerOf(author[k + i]) = LowerOf(text[i])

\* C14: for every filter text and sort key, the listing has exactly the
\* posts of the list whose author contains the text, letter case ignored,
\* each of them once; with the empty text these are all posts of the list.
C14_ListingIsFiltered ==
  ready =>
    \A filter \in ProbeFilters, key \in ProbeKeys :
      LET listing == getFilteredAndSortedPosts(posts, filter, key)
          matching == { i \in 1..Len(posts) :
                          ContainsIgnoringCase(posts[i].author, filter) }
      IN /\ Len(listing) = Cardinality(matching)
         /\ \A i \in matching : \E k \in 1..Len(listing) : listing[k] = posts[i]
         /\ \A k, l \in 1..Len(listing) : listing[k] = listing[l] => k = l
         /\ filter = Empty => Len(listing) = Len(posts)

\* Three posts of which the filter text "An" matches two ("Ann") but not
\* the third ("bob"), with the filter set and two cards shown.
C14_Witness ==
  /\ ready
  /\ Len(posts) = 3
  /\ posts[1].author = Ann
  /\ posts[2].author = bob
  /\ posts[3].author = Ann
  /\ authorFilter = <<"A", "n">>
  /\ Len(container) = 2

\* C15: a change of the sort key, typing in the filter and clearing the
\* filter, each with the listing and the rendering it runs, leave the
\* in-memory list and the stored snapshot as they are.
C15_ViewEventsKeepStore ==
  [][ ( \/ \E key \in SortKeys : sortChange(key)
        \/ \E text \in FilterTexts : filterInput(text)
        \/ clearFilter )
      => posts' = posts /\ storage' = storage ]_vars

\* The cards are in author order, with no filter, while the list is not:
\* the listing was sorted, the list was not.
C15_Witness ==
  /\ ready
  /\ sortBy = "author"
  /\ authorFilter = Empty
  /\ Len(posts) = 2
  /\ posts[1].author = bob
  /\ posts[2].author = Ann
  /\ Len(container) = 2
  /\ container[1].id = posts[2].id

\* C16 as stated: no event, in any execution, one with failing writes
\* included, leaves the list mutated and the snapshot without the mutation.
C16_MutationIsPersisted ==
  [][ready /\ posts' # posts => Holds(storage', posts')]_vars

\* C16, amended: an event that mutates the list and whose write to storage
\* succeeds leaves the snapshot holding the new list; an event whose write
\* throws leaves the snapshot as it was and ends there, with the form and
\* the page untouched.
C16_AtomicUnlessWriteFails ==
  [][ready =>
       /\ posts' # posts /\ failures' = failures => Holds(storage', posts')
       /\ failures' # failures =>
            /\ storage' = storage
            /\ error' = "QuotaExceededError"
            /\ UNCHANGED << currentEditingId, cancelEdit, container, noPosts >>
     ]_vars

\* A create whose write failed: the list has one post more than the
\* snapshot, the page still shows the old list.
C16_Witness ==
  /\ ready
  /\ error = "QuotaExceededError"
  /\ failures = 1
  /\ storage.kind = "array"
  /\ Len(posts) = Len(storage.items) + 1
  /\ Len(container) = Len(storage.items)

\* C17 as stated: while the form edits an id, a post with that id is in the
\* list.
C17_EditedPostExists == Editing => HasPost(posts, currentEditingId)

Listing == getFilteredAndSortedPosts(posts, authorFilter, sortBy)

\* C18: after startup, between two UI events, the rendered cards are the
\* cards of the listing of the in-memory list under the filter and sort key
\* selected, in its order, and the empty-state element is displayed exactly
\* when the listing is empty.
C18_ViewIsListing ==
  ready =>
    /\ Len(container) = Len(Listing)
    /\ \A i \in 1..Len(Listing) :
         /\ container[i].id = Listing[i].id
         /\ container[i].title = escapeHtml(Listing[i].title)
         /\ container[i].author = escapeHtml(Listing[i].author)
         /\ container[i].body = escapeHtml(Listing[i].body)
         /\ container[i].date = formatDate(Listing[i].timestamp)
    /\ (noPosts = "block") = (Listing = <<>>)
    /\ (noPosts = "none") = (Listing # <<>>)

\* The list has posts, all created or edited in this session, but the
\* filter matches none of them: no card, the empty-state element shown.
C18_Witness ==
  /\ ready
  /\ posts # <<>>
  /\ \A i \in 1..Len(posts) : posts[i].author = bob
  /\ authorFilter = <<"A", "n">>
  /\ container = <<>>
  /\ noPosts = "block"
  /\ issued = Ids

\* C19: with no filter text and a sort key other than "author", the listing
\* is the in-memory list, in its order.
C19_DefaultListingIsList ==
  ready =>
    \A key \in ProbeKeys \ { "author" } :
      getFilteredAndSortedPosts(posts, Empty, key) = posts

\* Three posts of which the first two were created at the same time, later
\* than the third.
C19_Witness ==
  /\ ready
  /\ Len(posts) = 3
  /\ posts[1].timestamp = posts[2].timestamp
  /\ posts[2].timestamp > posts[3].timestamp
  /\ posts[1].id > posts[2].id

====
